---- MODULE Spec2Model ----
(***************************************************************************)
(* Model of src/transcribe.py: the pipeline VideoProcessor.process_video   *)
(* (download -> extract_audio -> split_audio -> transcribe each chunk ->   *)
(* save_text -> print) and the segmenter AudioSplitter.split_audio.        *)
(*                                                                         *)
(* The libraries the script calls (requests, ffmpeg, pydub, whisper) are   *)
(* not part of the source.  Each call into them is a step whose result is  *)
(* drawn from the results the call can give: a value, or an exception that *)
(* propagates, since the source has no try/except anywhere.  In particular *)
(* the length pydub reports for the buffer handed to split_audio is drawn  *)
(* from a bounded set, and extract_audio may raise TypeError (io.BytesIO   *)
(* applied to the BytesIO that download_video returns) or ffmpeg.Error.    *)
(* Transcriber() and TextSaver.save_text are taken to return.              *)
(*                                                                         *)
(* Text is a sequence of one-character strings; NL is "\n".                *)
(***************************************************************************)
EXTENDS Integers, Sequences, FiniteSets, TLC

VARIABLES pc, response, video_data, extract_outcome, ffmpeg_out, audio_data,
          chunk_duration, duration_ms, chunks, engine, idx, calls, full_text,
          file, printed, error, log

(* pc               position in process_video (or in the lone split_audio)  *)
(* response         the response of requests.get (line 19)                 *)
(* video_data       what download_video returned (line 119)                *)
(* extract_outcome  how the library calls of extract_audio ended           *)
(* ffmpeg_out       what ffmpeg...run returned on line 42 (never used)     *)
(* audio_data       what extract_audio returned (line 123)                 *)
(* chunk_duration   AudioSplitter.chunk_duration, seconds                  *)
(* duration_ms      len(audio) on line 61                                  *)
(* chunks           the list split_audio returned (line 127)               *)
(* engine           the loaded model: chunk -> text, or an exception       *)
(* idx              position of `for chunk in chunks`, from 1              *)
(* calls            the chunks passed to transcribe, in call order         *)
(* full_text        the accumulator of lines 131-134                       *)
(* file             the output file                                        *)
(* printed          whether the success message was printed                *)
(* error            the exception that ended the run, "none" if none       *)
(* log              the stages entered so far, in order                    *)

vars == <<pc, response, video_data, extract_outcome, ffmpeg_out, audio_data,
          chunk_duration, duration_ms, chunks, engine, idx, calls, full_text,
          file, printed, error, log>>

----------------------------------------------------------------------------
(* Program constants *)

\* AudioSplitter.__init__(..., chunk_duration: int = 30), seconds
DEFAULT_CHUNK_DURATION == 30

\* the factor 1000 of `self.chunk_duration * 1000` (pydub lengths are in ms)
MS_PER_SECOND == 1000

(* Bounds of the model *)

\* process_video: the decoded audio holds at most this many full strides
\* of DEFAULT_CHUNK_DURATION, plus a remainder
MaxFullChunks == 2

\* split_audio alone: chunk_duration ranges over -1 .. MaxChunkDuration (s)
MaxChunkDuration == 3

\* split_audio alone: len(audio) ranges over 0 .. MaxDurationMs
MaxDurationMs == 3500

----------------------------------------------------------------------------
(* Values *)

NL == "\n"

Min(a, b) == IF a < b THEN a ELSE b

\* a call's result: a returned value, or a raised exception
Return(v) == [ok |-> TRUE, value |-> v, error |-> "none"]
Raise(e) == [ok |-> FALSE, value |-> <<>>, error |-> e]

\* io.BytesIO(): a fresh, empty buffer
EmptyBytesIO == <<>>

\* what the server holds at video_url
VideoBytes == <<"video">>

\* the WAV stream ffmpeg writes to stdout for the given input
Decode(bytes) == <<"wav">> \o bytes

\* HTTP statuses requests.get may hand back (redirects with a Location are
\* followed by requests itself; 304 and 4xx/5xx reach the caller)
Statuses == {200, 304, 404, 500}

\* texts the speech model may produce for a chunk
Texts == {<<>>, <<"a">>, <<"b">>}

\* result of Transcriber.transcribe on one chunk
Outcomes == {Return(t) : t \in Texts} \cup {Raise("TranscriptionError")}

\* len(audio) in process_video, where the stride is 30 s
Remainders == {0, 1, 5000, DEFAULT_CHUNK_DURATION * MS_PER_SECOND - 1}

PipelineDurations ==
    {k * DEFAULT_CHUNK_DURATION * MS_PER_SECOND + r :
        k \in 0..MaxFullChunks, r \in Remainders}

UnitDurations == 0..MaxDurationMs

ChunkDurations == (0 - 1)..MaxChunkDuration

\* results of AudioSegment.from_file: an AudioSegment of some length, or
\* CouldntDecodeError
FromFileResults(durations) ==
    {Return(d) : d \in durations} \cup {Raise("CouldntDecodeError")}

NoFile == [written |-> FALSE, text |-> <<>>]

----------------------------------------------------------------------------
(* VideoDownloader *)

\* response.raise_for_status(): HTTPError for 4xx and 5xx
raise_for_status(status) == 400 <= status /\ status < 600

download_video_unchecked(resp) == Return(resp.content)

download_video(resp) ==
    IF raise_for_status(resp.status)
    THEN Raise("HTTPError")
    ELSE Return(resp.content)

(* AudioExtractor *)

\* lib: "ok", or the exception raised by io.BytesIO(self.video_data) or by
\* ffmpeg...run(...).  The value returned is audio_output, the BytesIO
\* created empty on line 41 and never written to; run's stdout is dropped.
extract_audio(bytes, lib) ==
    IF lib # "ok" THEN Raise(lib) ELSE Return(EmptyBytesIO)

(* AudioSplitter *)

\* Python's range(start, stop, step) for step # 0, as a sequence
RECURSIVE PyRange(_, _, _)
PyRange(start, stop, step) ==
    IF (step > 0 /\ start >= stop) \/ (step < 0 /\ start <= stop)
    THEN <<>>
    ELSE <<start>> \o PyRange(start + step, stop, step)

SliceUnclamped(len, a, b) == [start_ms |-> a, end_ms |-> b]

\* audio[a:b] for 0 <= a <= b: pydub clamps both ends to len(audio)
Slice(len, a, b) == [start_ms |-> Min(a, len), end_ms |-> Min(b, len)]

split_audio_drop_tail(len, c) ==
    LET step == c * MS_PER_SECOND IN
    IF step = 0 THEN Raise("ValueError")
    ELSE LET starts == PyRange(0, len - step + 1, step) IN
         Return([i \in 1..Len(starts) |->
                    Slice(len, starts[i], starts[i] + step)])

\* the body of split_audio after from_file returned an audio of length len
split_audio(len, c) ==
    LET step == c * MS_PER_SECOND IN
    IF step = 0 THEN Raise("ValueError")   \* range() arg 3 must not be zero
    ELSE LET starts == PyRange(0, len, step) IN
         Return([i \in 1..Len(starts) |->
                    Slice(len, starts[i], starts[i] + step)])

(* Transcriber *)

\* transcribe(chunk): the model's result for that chunk
transcribe(model, chunk) == model[chunk]

(* TextSaver *)

save_text_skip_empty(text) ==
    IF text = <<>> THEN NoFile ELSE [written |-> TRUE, text |-> text]

\* open(file_path, 'w') and write(text)
save_text(text) == [written |-> TRUE, text |-> text]

(* The loop of process_video *)

next_chunk_reversed(cs, i) == cs[Len(cs) - i + 1]

\* the chunk `for chunk in chunks` yields at its i-th iteration (i from 1)
next_chunk(cs, i) == cs[i]

append_text_front(acc, text) == text \o <<NL>> \o acc

\* full_text += text + "\n"
append_text(acc, text) == acc \o text \o <<NL>>

----------------------------------------------------------------------------
(* process_video *)

Init ==
    /\ pc = "start"
    /\ response = [status |-> 0, content |-> <<>>]
    /\ video_data = <<>>
    /\ extract_outcome = "none"
    /\ ffmpeg_out = <<>>
    /\ audio_data = <<>>
    /\ chunk_duration = DEFAULT_CHUNK_DURATION
    /\ duration_ms = 0
    /\ chunks = <<>>
    /\ engine = [c \in {} |-> Raise("TranscriptionError")]
    /\ idx = 1
    /\ calls = <<>>
    /\ full_text = <<>>
    /\ file = NoFile
    /\ printed = FALSE
    /\ error = "none"
    /\ log = <<>>

\* lines 118-119: downloader.download_video()
Download ==
    /\ pc = "start"
    /\ \E s \in Statuses :
         LET resp == [status |-> s, content |-> VideoBytes]
             r == download_video(resp)
         IN /\ response' = resp
            /\ log' = Append(log, "download")
            /\ IF r.ok
               THEN /\ video_data' = r.value
                    /\ pc' = "downloaded"
                    /\ error' = error
               ELSE /\ video_data' = video_data
                    /\ pc' = "aborted"
                    /\ error' = r.error
    /\ UNCHANGED <<extract_outcome, ffmpeg_out, audio_data, chunk_duration,
                   duration_ms, chunks, engine, idx, calls, full_text, file,
                   printed>>

\* lines 122-123: extractor.extract_audio()
ExtractAudio ==
    /\ pc = "downloaded"
    /\ \E lib \in {"ok", "TypeError", "ffmpeg.Error"} :
         LET r == extract_audio(video_data, lib)
         IN /\ extract_outcome' = lib
            /\ ffmpeg_out' = IF lib = "ok" THEN Decode(video_data)
                                           ELSE ffmpeg_out
            /\ log' = Append(log, "extract")
            /\ IF r.ok
               THEN /\ audio_data' = r.value
                    /\ pc' = "extracted"
                    /\ error' = error
               ELSE /\ audio_data' = audio_data
                    /\ pc' = "aborted"
                    /\ error' = r.error
    /\ UNCHANGED <<response, video_data, chunk_duration, duration_ms, chunks,
                   engine, idx, calls, full_text, file, printed>>

\* lines 126-127: AudioSplitter(audio_data).split_audio()
SplitAudio ==
    /\ pc = "extracted"
    /\ chunk_duration' = DEFAULT_CHUNK_DURATION
    /\ \E decoded \in FromFileResults(PipelineDurations) :
         LET r == IF decoded.ok
                  THEN split_audio(decoded.value, DEFAULT_CHUNK_DURATION)
                  ELSE decoded
         IN /\ log' = log \o <<"split", "from_file">>
            /\ duration_ms' = IF decoded.ok THEN decoded.value ELSE duration_ms
            /\ IF r.ok
               THEN /\ chunks' = r.value
                    /\ pc' = "split"
                    /\ error' = error
               ELSE /\ chunks' = chunks
                    /\ pc' = "aborted"
                    /\ error' = r.error
    /\ UNCHANGED <<response, video_data, extract_outcome, ffmpeg_out,
                   audio_data, engine, idx, calls, full_text, file, printed>>

\* lines 130-131: Transcriber() loads the model; full_text = ""
LoadModel ==
    /\ pc = "split"
    /\ \E m \in [{chunks[i] : i \in 1..Len(chunks)} -> Outcomes] :
         engine' = m
    /\ full_text' = <<>>
    /\ idx' = 1
    /\ log' = Append(log, "load_model")
    /\ pc' = "loop"
    /\ UNCHANGED <<response, video_data, extract_outcome, ffmpeg_out,
                   audio_data, chunk_duration, duration_ms, chunks, calls,
                   file, printed, error>>

\* lines 132-134: one iteration of `for chunk in chunks`
Transcribe ==
    /\ pc = "loop"
    /\ idx <= Len(chunks)
    /\ LET chunk == next_chunk(chunks, idx)
           r == transcribe(engine, chunk)
       IN /\ calls' = Append(calls, chunk)
          /\ log' = Append(log, "transcribe")
          /\ IF r.ok
             THEN /\ full_text' = append_text(full_text, r.value)
                  /\ idx' = idx + 1
                  /\ pc' = pc
                  /\ error' = error
             ELSE /\ full_text' = full_text
                  /\ idx' = idx
                  /\ pc' = "aborted"
                  /\ error' = r.error
    /\ UNCHANGED <<response, video_data, extract_outcome, ffmpeg_out,
                   audio_data, chunk_duration, duration_ms, chunks, engine,
                   file, printed>>

\* lines 137-138: the loop is exhausted; saver.save_text(full_text)
SaveText ==
    /\ pc = "loop"
    /\ idx > Len(chunks)
    /\ file' = save_text(full_text)
    /\ log' = Append(log, "save")
    /\ pc' = "saved"
    /\ UNCHANGED <<response, video_data, extract_outcome, ffmpeg_out,
                   audio_data, chunk_duration, duration_ms, chunks, engine,
                   idx, calls, full_text, printed, error>>

\* line 139: print the success message
PrintSuccess ==
    /\ pc = "saved"
    /\ printed' = TRUE
    /\ log' = Append(log, "print")
    /\ pc' = "done"
    /\ UNCHANGED <<response, video_data, extract_outcome, ffmpeg_out,
                   audio_data, chunk_duration, duration_ms, chunks, engine,
                   idx, calls, full_text, file, error>>

Next ==
    \/ Download
    \/ ExtractAudio
    \/ SplitAudio
    \/ LoadModel
    \/ Transcribe
    \/ SaveText
    \/ PrintSuccess

Spec == Init /\ [][Next]_vars

----------------------------------------------------------------------------
(* AudioSplitter(audio_data, chunk_duration).split_audio() on its own *)

SplitInit ==
    /\ pc = "unit"
    /\ response = [status |-> 0, content |-> <<>>]
    /\ video_data = <<>>
    /\ extract_outcome = "none"
    /\ ffmpeg_out = <<>>
    /\ audio_data = <<"wav">>
    /\ chunk_duration \in ChunkDurations
    /\ duration_ms = 0
    /\ chunks = <<>>
    /\ engine = [c \in {} |-> Raise("TranscriptionError")]
    /\ idx = 1
    /\ calls = <<>>
    /\ full_text = <<>>
    /\ file = NoFile
    /\ printed = FALSE
    /\ error = "none"
    /\ log = <<>>

\* lines 60-71
SplitAudioUnit ==
    /\ pc = "unit"
    /\ \E decoded \in FromFileResults(UnitDurations) :
         LET r == IF decoded.ok
                  THEN split_audio(decoded.value, chunk_duration)
                  ELSE decoded
         IN /\ log' = log \o <<"split", "from_file">>
            /\ duration_ms' = IF decoded.ok THEN decoded.value ELSE duration_ms
            /\ chunks' = IF r.ok THEN r.value ELSE chunks
            /\ error' = r.error
    /\ pc' = "unit_done"
    /\ UNCHANGED <<response, video_data, extract_outcome, ffmpeg_out,
                   audio_data, chunk_duration, engine, idx, calls, full_text,
                   file, printed>>

SplitNext == SplitAudioUnit

SplitSpec == SplitInit /\ [][SplitNext]_vars

----------------------------------------------------------------------------
(* Helpers of the properties *)

InLog(stage) == \E i \in 1..Len(log) : log[i] = stage

Dur(chunk) == chunk.end_ms - chunk.start_ms

\* split_audio returned a chunk list for a positive chunk duration
UnitSplitReturned ==
    pc = "unit_done" /\ chunk_duration > 0 /\ error = "none"

\* text_1 + "\n" + ... + text_n + "\n"
RECURSIVE JoinLines(_)
JoinLines(texts) ==
    IF texts = <<>> THEN <<>>
    ELSE Head(texts) \o <<NL>> \o JoinLines(Tail(texts))

\* the model is loaded, so every chunk has a transcription outcome
Loaded == InLog("load_model")

Terminated == pc \in {"done", "aborted"}

Succeeds(chunk) == engine[chunk].ok

SuccessfulTexts ==
    LET good == SelectSeq(chunks, Succeeds)
    IN [i \in 1..Len(good) |-> engine[good[i]].value]

\* split_audio returned an empty chunk list inside process_video
SegmentationEmpty ==
    /\ InLog("split")
    /\ error \notin {"CouldntDecodeError", "ValueError"}
    /\ chunks = <<>>

----------------------------------------------------------------------------
(* Claims *)

\* C1: for every chunk duration c > 0 and audio length D >= 0, split_audio
\* returns exactly ceil(D / c) chunks (none when D = 0), and when D > 0 the
\* last chunk lasts D mod c, or c when that remainder is 0 (c and D in ms).
C1_ChunkCount ==
    UnitSplitReturned =>
        LET c == chunk_duration * MS_PER_SECOND
            D == duration_ms
            n == Len(chunks)
        IN /\ n * c >= D
           /\ n > 0 => (n - 1) * c < D
           /\ D = 0 => n = 0
           /\ D > 0 => Dur(chunks[n]) = (IF D % c = 0 THEN c ELSE D % c)

C1_Witness ==
    /\ UnitSplitReturned
    /\ chunk_duration = 2
    /\ duration_ms = 3500
    /\ Len(chunks) = 2
    /\ Dur(chunks[2]) = 1500

\* C2: for every chunk duration c > 0, the chunks in list order start at
\* 0, c, 2c, ..., chunk i covers [i*c, min((i+1)*c, D)), so they cover
\* [0, D) once, without gap or overlap, and none is longer than c.
C2_Coverage ==
    UnitSplitReturned =>
        LET c == chunk_duration * MS_PER_SECOND
            D == duration_ms
            n == Len(chunks)
        IN /\ \A i \in 1..n :
                /\ chunks[i].start_ms = (i - 1) * c
                /\ chunks[i].end_ms = Min(i * c, D)
                /\ Dur(chunks[i]) > 0
                /\ Dur(chunks[i]) <= c
                /\ i < n => chunks[i].end_ms = chunks[i + 1].start_ms
           /\ n > 0 => chunks[1].start_ms = 0 /\ chunks[n].end_ms = D
           /\ n = 0 => D = 0

C2_Witness ==
    /\ UnitSplitReturned
    /\ chunk_duration = 1
    /\ duration_ms = 2500
    /\ chunks = << [start_ms |-> 0, end_ms |-> 1000],
                   [start_ms |-> 1000, end_ms |-> 2000],
                   [start_ms |-> 2000, end_ms |-> 2500] >>

\* C3: when every chunk's transcription succeeds, the text handed to the
\* file sink is text_0 + "\n" + ... + text_{N-1} + "\n", the i-th piece
\* being the transcription of chunk i.
C3_TranscriptInOrder ==
    /\ pc = "loop" =>
         full_text = JoinLines([i \in 1..(idx - 1) |-> engine[chunks[i]].value])
    /\ InLog("save") =>
         /\ \A i \in 1..Len(chunks) : engine[chunks[i]].ok
         /\ file.written
         /\ file.text =
              JoinLines([i \in 1..Len(chunks) |-> engine[chunks[i]].value])

C3_Witness ==
    /\ pc = "done"
    /\ duration_ms = 65000
    /\ Len(chunks) = 3
    /\ engine[chunks[1]].value = <<"a">>
    /\ engine[chunks[2]].value = <<"b">>
    /\ engine[chunks[3]].value = <<>>
    /\ file.text = <<"a", NL, "b", NL, NL>>

\* C4 (as claimed): if the transcription of exactly one chunk k fails and
\* all others succeed, the run goes on with chunk k+1, saves the successful
\* chunks' text in chunk order and reports success.
C4_FailureIsolated ==
    (/\ Terminated
     /\ Loaded
     /\ Len(chunks) >= 2
     /\ Cardinality({i \in 1..Len(chunks) : ~engine[chunks[i]].ok}) = 1)
    => /\ pc = "done"
       /\ printed
       /\ file.written
       /\ file.text = JoinLines(SuccessfulTexts)

\* C5 (as claimed): if the transcription of every chunk fails, the run
\* fails with TranscriptionFailed and no output file is written.
C5_AllFailTranscriptionFailed ==
    (/\ Terminated
     /\ Loaded
     /\ Len(chunks) >= 1
     /\ \A i \in 1..Len(chunks) : ~engine[chunks[i]].ok)
    => /\ pc = "aborted"
       /\ error = "TranscriptionFailed"
       /\ ~file.written
       /\ ~printed

\* C6 (as claimed): a chunk duration <= 0 is rejected with InvalidConfig
\* before any decode call is made and before any chunk is produced.
C6_InvalidConfigRejected ==
    (pc = "unit_done" /\ chunk_duration <= 0)
    => /\ error = "InvalidConfig"
       /\ ~InLog("from_file")
       /\ chunks = <<>>

C8_AudioIsDecodedOutput ==
    extract_outcome = "ok" => audio_data = ffmpeg_out

\* C9: the engine is invoked on chunks in strictly ascending chunk-index
\* order, each chunk at most once (exactly once when the run completes),
\* and never before segmentation has produced the chunk.
C9_TranscribeOrder ==
    /\ Len(calls) <= Len(chunks)
    /\ \A k \in 1..Len(calls) : calls[k] = chunks[k]
    /\ \A j, k \in 1..Len(calls) :
         j < k => calls[j].start_ms < calls[k].start_ms
    /\ pc \in {"saved", "done"} => Len(calls) = Len(chunks)
    /\ \A i \in 1..Len(log) :
         log[i] = "transcribe" => \E j \in 1..(i - 1) : log[j] = "split"

C9_Witness ==
    /\ pc = "done"
    /\ Len(chunks) = 3
    /\ calls = chunks

\* C10: when segmentation yields no chunk, process_video makes no
\* transcription call and still completes: it hands the empty string to
\* the file sink and prints the success message.
C10_EmptyTranscriptSaved ==
    SegmentationEmpty =>
        /\ pc # "aborted"
        /\ error = "none"
        /\ calls = <<>>
        /\ ~InLog("transcribe")
        /\ pc = "loop" => ENABLED SaveText
        /\ InLog("save") => file = [written |-> TRUE, text |-> <<>>]
        /\ pc = "done" => printed

C10_Witness ==
    /\ pc = "done"
    /\ duration_ms = 0
    /\ chunks = <<>>
    /\ calls = <<>>
    /\ file = [written |-> TRUE, text |-> <<>>]
    /\ printed

====
